---------------------------- MODULE Spec2Model ----------------------------
(***************************************************************************)
(* A model of the escrow program (src/src/processor.rs,                    *)
(* src/src/instruction.rs, src/src/error.rs).                              *)
(*                                                                         *)
(* One dispatch call (Processor::process) is one action.  The handler is   *)
(* evaluated statement by statement on a working copy of the accounts; the *)
(* host commits the copy when the handler returns Ok and discards it when  *)
(* it returns an error.                                                    *)
(*                                                                         *)
(* The token program (spl_token), the escrow record codec (state.rs, not   *)
(* among the sources) and the host runtime are modelled at their           *)
(* interface.                                                              *)
(***************************************************************************)
EXTENDS Integers, Sequences, FiniteSets, TLC

(***************************************************************************)
(* Bounds.                                                                 *)
(***************************************************************************)
\* Instruction amounts range over 0..MaxAmount.
MaxAmount == 2
\* Stand-in for u64::MAX: balances are kept in 0..U64_MAX and checked_add
\* fails above it.
U64_MAX == 15

(***************************************************************************)
(* Identities.                                                             *)
(***************************************************************************)
TokenProgram == "spl_token"
EscrowProgram == "escrow_program"
SystemProgram == "system_program"
RogueProgram == "rogue_program"
RentSysvar == "sysvar_rent"
\* Pubkey::default(), the content of a zeroed identity field.
ZeroPubkey == "zero_pubkey"

Wallets == {"alice", "bob"}
TokenAccounts == {"tA1", "tA2", "rA", "rB", "sB"}
EscrowAccounts == {"e1", "e2", "f"}
Keys == Wallets \cup TokenAccounts \cup EscrowAccounts

\* AccountInfo.owner: the program that owns the account's storage.
OwnerProgram(k) ==
    IF k \in TokenAccounts THEN TokenProgram
    ELSE IF k \in {"e1", "e2"} THEN EscrowProgram
    ELSE IF k = "f" THEN RogueProgram
    ELSE SystemProgram

OK == "Ok"

(***************************************************************************)
(* Pubkey::find_program_address / create_program_address: a deterministic, *)
(* injective derivation from (seed, program id).                           *)
(***************************************************************************)
FindProgramAddress(seed, program_id) ==
    IF seed = "escrow" /\ program_id = EscrowProgram
    THEN [key |-> "pda", bump |-> 1]
    ELSE [key |-> "pda_other", bump |-> 1]

\* The identity the host accepts as signed for invoke_signed(seeds).
CreateProgramAddress(seed, bump, program_id) ==
    IF FindProgramAddress(seed, program_id).bump = bump
    THEN FindProgramAddress(seed, program_id).key
    ELSE "pda_none"

(***************************************************************************)
(* Arithmetic.                                                             *)
(***************************************************************************)
\* u64::checked_add: None is -1.
CheckedAdd(a, b) == IF a + b > U64_MAX THEN -1 ELSE a + b

(***************************************************************************)
(* Instruction codec (instruction.rs).  A buffer is a sequence of bytes.   *)
(***************************************************************************)
RECURSIVE FromLeBytes(_)
\* u64::from_le_bytes
FromLeBytes(bs) ==
    IF bs = <<>> THEN 0 ELSE Head(bs) + 256 * FromLeBytes(Tail(bs))

\* Variant: the operand must be exactly 8 bytes.
UnpackAmountExactWidth(input) ==
    IF Len(input) # 8
    THEN [err |-> "InvalidInstruction", amount |-> 0]
    ELSE [err |-> OK, amount |-> FromLeBytes(input)]

\* Variant: a short operand is decoded as if padded with zeros.
UnpackAmountPadded(input) ==
    IF Len(input) < 8
    THEN [err |-> OK, amount |-> FromLeBytes(input)]
    ELSE [err |-> OK, amount |-> FromLeBytes(SubSeq(input, 1, 8))]

\* input.get(..8).and_then(|slice| slice.try_into().ok()).map(from_le_bytes)
UnpackAmount(input) ==
    IF Len(input) < 8
    THEN [err |-> "InvalidInstruction", amount |-> 0]
    ELSE [err |-> OK, amount |-> FromLeBytes(SubSeq(input, 1, 8))]

\* Variant: every tag other than 0 is taken for Exchange.
UnpackAnyTag(input) ==
    IF input = <<>>
    THEN [err |-> "InvalidInstruction", tag |-> "none", amount |-> 0]
    ELSE LET a == UnpackAmount(Tail(input))
         IN  [err |-> a.err,
              tag |-> IF Head(input) = 0 THEN "InitEscrow" ELSE "Exchange",
              amount |-> a.amount]

\* EscrowInstruction::unpack
Unpack(input) ==
    IF input = <<>>
    THEN [err |-> "InvalidInstruction", tag |-> "none", amount |-> 0]
    ELSE LET tag == Head(input)
             rest == Tail(input)
             a == UnpackAmount(rest)
         IN  IF tag = 0
             THEN [err |-> a.err, tag |-> "InitEscrow", amount |-> a.amount]
             ELSE IF tag = 1
             THEN [err |-> a.err, tag |-> "Exchange", amount |-> a.amount]
             ELSE [err |-> "InvalidInstruction", tag |-> "none", amount |-> 0]

\* The client side: tag byte, then the amount as 8 little-endian bytes.
RECURSIVE ToLeBytes(_, _)
ToLeBytes(n, width) ==
    IF width = 0 THEN <<>> ELSE <<n % 256>> \o ToLeBytes(n \div 256, width - 1)

EncodeInstruction(tag, amount) == <<tag>> \o ToLeBytes(amount, 8)

(***************************************************************************)
(* Escrow record codec (state.rs).  A data buffer is a sequence of fields, *)
(* of widths 1, 32, 32, 32, 8 bytes; <<>> is the empty buffer.             *)
(***************************************************************************)
FieldWidths == <<1, 32, 32, 32, 8>>

RECURSIVE SumWidths(_)
SumWidths(n) == IF n = 0 THEN 0 ELSE FieldWidths[n] + SumWidths(n - 1)

\* Escrow::LEN
ESCROW_LEN == 105

\* data_len() of a buffer
DataLen(buf) == SumWidths(Len(buf))

ZeroBuffer == <<0, ZeroPubkey, ZeroPubkey, ZeroPubkey, 0>>

\* Escrow::unpack_unchecked: only the shape is validated.
EscrowUnpackUnchecked(buf) ==
    IF DataLen(buf) # ESCROW_LEN
    THEN [err |-> "InvalidAccountData"]
    ELSE [err |-> OK,
          is_initialized |-> (buf[1] # 0),
          initializer_pubkey |-> buf[2],
          temp_token_account_pubkey |-> buf[3],
          initializer_token_to_receive_account_pubkey |-> buf[4],
          expected_amount |-> buf[5]]

\* Escrow::unpack: unpack_unchecked, then is_initialized is required.
EscrowUnpack(buf) ==
    LET e == EscrowUnpackUnchecked(buf)
    IN  IF e.err # OK THEN e
        ELSE IF ~e.is_initialized THEN [err |-> "UninitializedAccount"]
        ELSE e

\* Escrow::pack into a buffer of the fixed width.
EscrowPack(e, buf) ==
    IF DataLen(buf) # ESCROW_LEN
    THEN [err |-> "InvalidAccountData", buf |-> buf]
    ELSE [err |-> OK,
          buf |-> <<IF e.is_initialized THEN 1 ELSE 0,
                    e.initializer_pubkey,
                    e.temp_token_account_pubkey,
                    e.initializer_token_to_receive_account_pubkey,
                    e.expected_amount>>]

(***************************************************************************)
(* Host: rent.                                                             *)
(***************************************************************************)
\* Rent::minimum_balance, scaled: (storage overhead + data_len) per 100.
MinimumBalance(data_len) == (128 + data_len) \div 100

\* Variant: every balance counts as exempt.
IsExemptAlways(lamports_, data_len) == TRUE

\* Rent::is_exempt
IsExempt(lamports_, data_len) == lamports_ >= MinimumBalance(data_len)

(***************************************************************************)
(* Token program (spl_token), the collaborator.  st is the working copy of *)
(* the accounts: st.lamports, st.token (the token accounts' data) and      *)
(* st.data (the escrow accounts' data buffers).  Each operation returns    *)
(* [err, st].                                                              *)
(***************************************************************************)
IsTokenAccount(st, k) == k \in TokenAccounts /\ st.token[k].state = "Initialized"

\* TokenAccount::unpack of the account's data.
TokenUnpack(st, k) ==
    IF k \notin TokenAccounts THEN [err |-> "InvalidAccountData", amount |-> 0]
    ELSE IF st.token[k].state # "Initialized"
    THEN [err |-> "UninitializedAccount", amount |-> 0]
    ELSE [err |-> OK, amount |-> st.token[k].amount]

\* Processor::validate_owner: the expected authority, present as a signer.
ValidateOwner(expected, authority, signers) ==
    IF expected # authority THEN "OwnerMismatch"
    ELSE IF authority \notin signers THEN "MissingRequiredSignature"
    ELSE OK

\* setAuthority(account, newAuthority, currentAuthorityProof), AccountOwner
TokenSetAuthority(st, account, new_authority, authority, signers) ==
    IF ~IsTokenAccount(st, account) THEN [err |-> "InvalidAccountData", st |-> st]
    ELSE LET v == ValidateOwner(st.token[account].owner, authority, signers)
         IN  IF v # OK THEN [err |-> v, st |-> st]
             ELSE [err |-> OK,
                   st |-> [st EXCEPT !.token[account].owner = new_authority]]

\* transfer(from, to, amount, authorityProof)
TokenTransfer(st, source, dest, authority, amount, signers) ==
    IF ~IsTokenAccount(st, source) \/ ~IsTokenAccount(st, dest)
    THEN [err |-> "InvalidAccountData", st |-> st]
    ELSE IF st.token[source].amount < amount
    THEN [err |-> "InsufficientFunds", st |-> st]
    ELSE IF st.token[source].mint # st.token[dest].mint
    THEN [err |-> "MintMismatch", st |-> st]
    ELSE LET v == ValidateOwner(st.token[source].owner, authority, signers)
         IN  IF v # OK THEN [err |-> v, st |-> st]
             ELSE IF source = dest THEN [err |-> OK, st |-> st]
             ELSE IF CheckedAdd(st.token[dest].amount, amount) < 0
             THEN [err |-> "Overflow", st |-> st]
             ELSE [err |-> OK,
                   st |-> [st EXCEPT
                       !.token[source].amount = @ - amount,
                       !.token[dest].amount = @ + amount]]

\* closeAccount(account, refundTarget, authorityProof): the account must be
\* empty; its storage balance goes to the refund target and the account is
\* gone when the call commits.
TokenCloseAccount(st, source, dest, authority, signers) ==
    IF source = dest \/ ~IsTokenAccount(st, source)
    THEN [err |-> "InvalidAccountData", st |-> st]
    ELSE IF st.token[source].amount # 0
    THEN [err |-> "NonNativeHasBalance", st |-> st]
    ELSE LET v == ValidateOwner(st.token[source].owner, authority, signers)
         IN  IF v # OK THEN [err |-> v, st |-> st]
             ELSE IF CheckedAdd(st.lamports[dest], st.lamports[source]) < 0
             THEN [err |-> "Overflow", st |-> st]
             ELSE [err |-> OK,
                   st |-> [st EXCEPT
                       !.lamports[dest] = @ + st.lamports[source],
                       !.lamports[source] = 0,
                       !.token[source].state = "Uninitialized",
                       !.token[source].amount = 0]]

(***************************************************************************)
(* Requests to the collaborator.  A request names the program, the         *)
(* operation, its accounts and the identities that must have signed.       *)
(***************************************************************************)
\* spl_token::instruction::{set_authority, transfer, close_account}: the
\* builders refuse a program id that is not the token program's.
BuildIx(token_program_id, op, account, other, authority, amount) ==
    IF token_program_id # TokenProgram
    THEN [err |-> "IncorrectProgramId"]
    ELSE [err |-> OK,
          ix |-> [program_id |-> token_program_id, op |-> op,
                  account |-> account, other |-> other,
                  authority |-> authority, amount |-> amount]]

\* The accounts a request refers to, which the caller must pass along.
IxAccounts(ix) ==
    IF ix.op = "SetAuthority" THEN {ix.account, ix.authority}
    ELSE {ix.account, ix.other, ix.authority}

\* invoke / invoke_signed: the host checks that every account of the request
\* was passed and that its signer signed the transaction or is the address
\* derived from signer_seeds, then runs the token program.
InvokeSigned(st, ix, account_infos, pda_signers) ==
    LET passed == {account_infos[i].key : i \in DOMAIN account_infos}
        signers == {account_infos[i].key :
                       i \in {j \in DOMAIN account_infos :
                                 account_infos[j].is_signer}}
                   \cup (pda_signers \cap passed)
    IN  IF ~(IxAccounts(ix) \subseteq passed)
        THEN [err |-> "MissingAccount", st |-> st]
        ELSE IF ix.authority \notin signers
        THEN [err |-> "PrivilegeEscalation", st |-> st]
        ELSE IF ix.op = "SetAuthority"
        THEN TokenSetAuthority(st, ix.account, ix.other, ix.authority, signers)
        ELSE IF ix.op = "Transfer"
        THEN TokenTransfer(st, ix.account, ix.other, ix.authority,
                           ix.amount, signers)
        ELSE TokenCloseAccount(st, ix.account, ix.other, ix.authority, signers)

Invoke(st, ix, account_infos) == InvokeSigned(st, ix, account_infos, {})

(***************************************************************************)
(* Processor (processor.rs).  A handler's run is a record                  *)
(*   [err, st, steps, cpi]:                                                *)
(* the result, the working copy, the steps it executed in order, and the   *)
(* requests it issued to the collaborator in order.                        *)
(***************************************************************************)
Start(st) == [err |-> OK, st |-> st, steps |-> <<>>, cpi |-> <<>>]

\* A step that was executed.
Did(c, step) == [c EXCEPT !.steps = Append(@, step)]

\* return Err(e)
Fail(c, e) == [c EXCEPT !.err = e]

\* invoke(...)?: the request is issued; its effect replaces the working copy.
Issue(c, ix, r) ==
    [c EXCEPT !.cpi = Append(@, ix), !.steps = Append(@, ix.op), !.st = r.st,
              !.err = r.err]

\* account.data of an account
DataOf(st, k) == IF k \in EscrowAccounts THEN st.data[k] ELSE <<>>

\* *account.try_borrow_mut_data()? = buf
SetData(st, k, buf) ==
    IF k \in EscrowAccounts THEN [st EXCEPT !.data[k] = buf] ELSE st

\* Variant: the signature is not required.
IsSignerUnchecked(account) == TRUE

\* if !initializer.is_signer / if !taker.is_signer
IsSigner(account) == account.is_signer

\* Variant: an initialized record is not recognised.
IsInitializedIgnored(escrow_info) == FALSE

\* if escrow_info.is_initialized()
IsInitialized(escrow_info) == escrow_info.is_initialized

\* Variant: only a claim above the custody balance is rejected.
AmountMismatchOnlyAbove(amount_expected_by_taker, custody_amount) ==
    amount_expected_by_taker > custody_amount

\* if amount_expected_by_taker != pdas_temp_token_account_info.amount
AmountMismatch(amount_expected_by_taker, custody_amount) ==
    amount_expected_by_taker # custody_amount

\* Variant: the receiving account is not compared.
RecordMismatchNoReceive(escrow_info, custody, initializer, receive) ==
    \/ escrow_info.temp_token_account_pubkey # custody
    \/ escrow_info.initializer_pubkey # initializer

\* The three comparisons of the record with the supplied accounts.
RecordMismatch(escrow_info, custody, initializer, receive) ==
    \/ escrow_info.temp_token_account_pubkey # custody
    \/ escrow_info.initializer_pubkey # initializer
    \/ escrow_info.initializer_token_to_receive_account_pubkey # receive

\* Variant: the initializer is paid the amount the taker named.
PaymentAmountFromInstruction(escrow_info, custody_amount) == custody_amount

\* The amount of the transfer to the initializer: escrow_info.expected_amount
PaymentAmount(escrow_info, custody_amount) == escrow_info.expected_amount

\* Variant: the buffer is zero-filled and keeps its width.
ClearedDataZeroFill(buf) == ZeroBuffer

\* *escrow_account.try_borrow_mut_data()? = &mut []
ClearedData(buf) == <<>>

\* Variant: the custody account is left with the initializer.
InitSetAuthoritySkipped(c, accounts, program_id) == c

\* Processor::process_init_escrow, lines 87-124: the set_authority request.
InitSetAuthority(c, accounts, program_id) ==
    LET initializer == accounts[1]
        temp_token_account == accounts[2]
        pda == FindProgramAddress("escrow", program_id).key
    IN  IF Len(accounts) < 6 THEN Fail(c, "NotEnoughAccountKeys")
        ELSE
        LET token_program == accounts[6]
            b == BuildIx(token_program.key, "SetAuthority",
                         temp_token_account.key, pda, initializer.key, 0)
        IN  IF b.err # OK THEN Fail(c, b.err)
            ELSE Issue(c, b.ix,
                       Invoke(c.st, b.ix,
                              <<temp_token_account, initializer, token_program>>))

\* Processor::process_init_escrow, lines 62-74: the record is read, checked
\* and written.
InitWriteRecord(c, accounts, amount) ==
    LET initializer == accounts[1]
        temp_token_account == accounts[2]
        token_to_receive_account == accounts[3]
        escrow_account == accounts[4]
        escrow_info == EscrowUnpackUnchecked(DataOf(c.st, escrow_account.key))
        c1 == Did(c, "unpack_escrow")
    IN  IF escrow_info.err # OK THEN Fail(c1, escrow_info.err)
        ELSE IF IsInitialized(escrow_info)
        THEN Fail(c1, "AccountAlreadyInitialized")
        ELSE
        LET filled == [escrow_info EXCEPT
                !.is_initialized = TRUE,
                !.initializer_pubkey = initializer.key,
                !.temp_token_account_pubkey = temp_token_account.key,
                !.initializer_token_to_receive_account_pubkey =
                    token_to_receive_account.key,
                !.expected_amount = amount]
            packed == EscrowPack(filled, DataOf(c.st, escrow_account.key))
        IN  IF packed.err # OK THEN Fail(c1, packed.err)
            ELSE [Did(c1, "pack_escrow") EXCEPT
                     !.st = SetData(c.st, escrow_account.key, packed.buf)]

\* Processor::process_init_escrow
ProcessInitEscrow(st, accounts, amount, program_id) ==
    LET c == Start(st)
    IN  IF Len(accounts) < 1 THEN Fail(c, "NotEnoughAccountKeys")
        ELSE IF ~IsSigner(accounts[1])
        THEN Fail(c, "MissingRequiredSignature")
        ELSE IF Len(accounts) < 3 THEN Fail(c, "NotEnoughAccountKeys")
        ELSE IF OwnerProgram(accounts[3].key) # TokenProgram
        THEN Fail(c, "IncorrectProgramId")
        ELSE IF Len(accounts) < 5 THEN Fail(c, "NotEnoughAccountKeys")
        ELSE IF accounts[5].key # RentSysvar THEN Fail(c, "InvalidArgument")
        ELSE IF ~IsExempt(st.lamports[accounts[4].key],
                          DataLen(DataOf(st, accounts[4].key)))
        THEN Fail(c, "NotRentExempt")
        ELSE
        LET w == InitWriteRecord(c, accounts, amount)
        IN  IF w.err # OK THEN w
            ELSE InitSetAuthority(w, accounts, program_id)

\* Processor::process_exchange, lines 249-254: the escrow account's balance
\* is credited to the initializer and the escrow account is emptied.
ExchangeCloseEscrow(c, accounts) ==
    LET initializers_main_account == accounts[5]
        escrow_account == accounts[7]
        sum == CheckedAdd(c.st.lamports[initializers_main_account.key],
                          c.st.lamports[escrow_account.key])
    IN  IF sum < 0 THEN Fail(c, "AmountOverflow")
        ELSE
        LET credited == [c.st EXCEPT
                !.lamports[initializers_main_account.key] = sum]
            zeroed == [credited EXCEPT !.lamports[escrow_account.key] = 0]
            erased == SetData(zeroed, escrow_account.key,
                              ClearedData(DataOf(zeroed, escrow_account.key)))
        IN  [Did(Did(c, "credit_lamports"), "erase_escrow") EXCEPT
                !.st = erased]

\* Variant: the custody account and the escrow account are left open.
ExchangeCloseCustodySkipped(c, accounts, program_id) == c

\* Processor::process_exchange, lines 224-254: the close request for the
\* custody account, then the closing of the escrow account.
ExchangeCloseCustody(c, accounts, program_id) ==
    LET pdas_temp_token_account == accounts[4]
        initializers_main_account == accounts[5]
        token_program == accounts[8]
        pda_account == accounts[9]
        found == FindProgramAddress("escrow", program_id)
        pda == found.key
        seeds_signer == {CreateProgramAddress("escrow", found.bump, program_id)}
        b3 == BuildIx(token_program.key, "CloseAccount",
                      pdas_temp_token_account.key,
                      initializers_main_account.key, pda, 0)
        c3 == Issue(c, b3.ix,
                    InvokeSigned(c.st, b3.ix,
                                 <<pdas_temp_token_account,
                                   initializers_main_account,
                                   pda_account, token_program>>,
                                 seeds_signer))
    IN  IF c3.err # OK THEN c3
        ELSE ExchangeCloseEscrow(c3, accounts)

\* Processor::process_exchange, lines 173-222: the two transfers, then the
\* closing.
ExchangeRequests(c, accounts, escrow_info, custody_amount, program_id) ==
    LET taker == accounts[1]
        takers_sending_token_account == accounts[2]
        takers_token_to_receive_account == accounts[3]
        pdas_temp_token_account == accounts[4]
        initializers_main_account == accounts[5]
        initializers_token_to_receive_account == accounts[6]
        found == FindProgramAddress("escrow", program_id)
        pda == found.key
        seeds_signer == {CreateProgramAddress("escrow", found.bump, program_id)}
    IN  IF Len(accounts) < 8 THEN Fail(c, "NotEnoughAccountKeys")
        ELSE
        LET token_program == accounts[8]
            b1 == BuildIx(token_program.key, "Transfer",
                          takers_sending_token_account.key,
                          initializers_token_to_receive_account.key,
                          taker.key, PaymentAmount(escrow_info, custody_amount))
        IN  IF b1.err # OK THEN Fail(c, b1.err)
            ELSE
            LET c1 == Issue(c, b1.ix,
                        Invoke(c.st, b1.ix,
                               <<takers_sending_token_account,
                                 initializers_token_to_receive_account,
                                 taker, token_program>>))
            IN  IF c1.err # OK THEN c1
                ELSE IF Len(accounts) < 9 THEN Fail(c1, "NotEnoughAccountKeys")
                ELSE
                LET pda_account == accounts[9]
                    b2 == BuildIx(token_program.key, "Transfer",
                                  pdas_temp_token_account.key,
                                  takers_token_to_receive_account.key,
                                  pda, custody_amount)
                    c2 == Issue(c1, b2.ix,
                            InvokeSigned(c1.st, b2.ix,
                                <<pdas_temp_token_account,
                                  takers_token_to_receive_account,
                                  pda_account, token_program>>,
                                seeds_signer))
                IN  IF c2.err # OK THEN c2
                    ELSE ExchangeCloseCustody(c2, accounts, program_id)

\* Variant: the supplied accounts are compared with the record only after
\* the requests have been made.
ExchangeCheckRecordLate(c, accounts, custody_amount, program_id) ==
    IF Len(accounts) < 7 THEN Fail(c, "NotEnoughAccountKeys")
    ELSE
    LET escrow_info == EscrowUnpack(DataOf(c.st, accounts[7].key))
        c1 == Did(c, "unpack_escrow")
    IN  IF escrow_info.err # OK THEN Fail(c1, escrow_info.err)
        ELSE
        LET r == ExchangeRequests(c1, accounts, escrow_info, custody_amount,
                                  program_id)
        IN  IF r.err = OK /\ RecordMismatch(escrow_info, accounts[4].key,
                                            accounts[5].key, accounts[6].key)
            THEN Fail(r, "InvalidAccountData")
            ELSE r

\* Processor::process_exchange, lines 157-171: the record is read and the
\* supplied accounts are compared with it.
ExchangeCheckRecord(c, accounts, custody_amount, program_id) ==
    IF Len(accounts) < 7 THEN Fail(c, "NotEnoughAccountKeys")
    ELSE
    LET pdas_temp_token_account == accounts[4]
        initializers_main_account == accounts[5]
        initializers_token_to_receive_account == accounts[6]
        escrow_account == accounts[7]
        escrow_info == EscrowUnpack(DataOf(c.st, escrow_account.key))
        c1 == Did(c, "unpack_escrow")
    IN  IF escrow_info.err # OK THEN Fail(c1, escrow_info.err)
        ELSE IF RecordMismatch(escrow_info, pdas_temp_token_account.key,
                               initializers_main_account.key,
                               initializers_token_to_receive_account.key)
        THEN Fail(c1, "InvalidAccountData")
        ELSE ExchangeRequests(c1, accounts, escrow_info, custody_amount,
                              program_id)

\* Processor::process_exchange
ProcessExchange(st, accounts, amount_expected_by_taker, program_id) ==
    LET c == Start(st)
    IN  IF Len(accounts) < 1 THEN Fail(c, "NotEnoughAccountKeys")
        ELSE IF ~IsSigner(accounts[1])
        THEN Fail(c, "MissingRequiredSignature")
        ELSE IF Len(accounts) < 4 THEN Fail(c, "NotEnoughAccountKeys")
        ELSE
        LET pdas_temp_token_account_info == TokenUnpack(st, accounts[4].key)
            c1 == Did(c, "unpack_custody")
        IN  IF pdas_temp_token_account_info.err # OK
            THEN Fail(c1, pdas_temp_token_account_info.err)
            ELSE IF AmountMismatch(amount_expected_by_taker,
                                   pdas_temp_token_account_info.amount)
            THEN Fail(c1, "ExpectedAmountMismatch")
            ELSE ExchangeCheckRecord(c1, accounts,
                                     pdas_temp_token_account_info.amount,
                                     program_id)

\* Processor::process: decode, then route to one handler.
Process(st, program_id, accounts, instruction_data) ==
    LET instruction == Unpack(instruction_data)
    IN  IF instruction.err # OK THEN Fail(Start(st), instruction.err)
        ELSE IF instruction.tag = "InitEscrow"
        THEN ProcessInitEscrow(st, accounts, instruction.amount, program_id)
        ELSE ProcessExchange(st, accounts, instruction.amount, program_id)

(***************************************************************************)
(* State.                                                                  *)
(***************************************************************************)
VARIABLES
    lamports,   \* storage balance of every account
    token,      \* the token accounts, as the token program keeps them
    data,       \* the data buffer of every escrow account
    pc,         \* "idle", or "returned" right after a dispatch call
    last,       \* the dispatch call that just returned
    closed      \* history: the escrow accounts an Exchange has succeeded on

vars == <<lamports, token, data, pc, last, closed>>

\* The accounts as one record, the form the handlers work on.
Accounts == [lamports |-> lamports, token |-> token, data |-> data]

NoCall == [kind |-> "none"]

\* A record that some other program wrote into an account it owns: it names
\* alice's custody account, and bob and bob's own token account as the
\* parties to be paid.
ForgedRecord == <<1, "bob", "tA1", "sB", 0>>

Init ==
    /\ lamports \in
         {[k \in Keys |->
             IF k = "alice" THEN a
             ELSE IF k = "bob" THEN MinimumBalance(ESCROW_LEN)
             ELSE IF k \in {"e1", "e2"} THEN MinimumBalance(ESCROW_LEN)
             ELSE IF k = "f" THEN 0
             ELSE 1] : a \in {1, U64_MAX - 2}}
    /\ token =
          [k \in TokenAccounts |->
             [state |-> "Initialized",
              mint |-> IF k \in {"tA1", "tA2", "rA"} THEN "A" ELSE "B",
              owner |-> IF k \in {"rA", "sB"} THEN "bob"
                        ELSE IF k = "tA2" THEN "e2" ELSE "alice",
              amount |-> IF k = "tA1" THEN 1
                         ELSE IF k = "tA2" THEN 2
                         ELSE IF k = "sB" THEN MaxAmount
                         ELSE 0]]
    /\ data = [k \in EscrowAccounts |->
                  IF k = "f" THEN ForgedRecord ELSE ZeroBuffer]
    /\ pc = "idle"
    /\ last = NoCall
    /\ closed = {}

(***************************************************************************)
(* The transactions a client may submit.                                   *)
(***************************************************************************)
Acc(k, s) == [key |-> k, is_signer |-> s]

Amounts == 0..MaxAmount

\* InitEscrow: any of the signers with any custody account, escrow account
\* and amount; the receiving account and the token program are the proper
\* ones or one of them is not.
InitTxs ==
    {[data |-> EncodeInstruction(0, amount),
      accounts |-> <<initializer, Acc(temp, FALSE), Acc(rest[1], FALSE),
                     Acc(escrow, FALSE), Acc(RentSysvar, FALSE),
                     Acc(rest[2], FALSE)>>] :
        initializer \in {Acc("alice", TRUE), Acc("alice", FALSE),
                         Acc("bob", TRUE), Acc("e2", TRUE)},
        temp \in {"tA1", "tA2"},
        rest \in {<<"rB", TokenProgram>>, <<"bob", TokenProgram>>,
                  <<"rB", RogueProgram>>},
        escrow \in EscrowAccounts,
        amount \in Amounts}

\* What the taker brings to an Exchange: the signature, the send and receive
\* accounts, the token program and the derived-authority account; all
\* proper, or one of them not; and a second taker, all proper.
TakerSides ==
    {[taker |-> Acc("bob", TRUE), send |-> "sB", receive |-> "rA",
      token_program |-> TokenProgram, pda_account |-> "pda"],
     [taker |-> Acc("bob", FALSE), send |-> "sB", receive |-> "rA",
      token_program |-> TokenProgram, pda_account |-> "pda"],
     [taker |-> Acc("bob", TRUE), send |-> "rB", receive |-> "rA",
      token_program |-> TokenProgram, pda_account |-> "pda"],
     [taker |-> Acc("bob", TRUE), send |-> "sB", receive |-> "tA1",
      token_program |-> TokenProgram, pda_account |-> "pda"],
     [taker |-> Acc("bob", TRUE), send |-> "sB", receive |-> "rA",
      token_program |-> RogueProgram, pda_account |-> "pda"],
     [taker |-> Acc("bob", TRUE), send |-> "sB", receive |-> "rA",
      token_program |-> TokenProgram, pda_account |-> "bob"],
     [taker |-> Acc("alice", TRUE), send |-> "rB", receive |-> "rA",
      token_program |-> TokenProgram, pda_account |-> "pda"]}

\* Exchange: a taker side with any custody, initializer, initializer-receive
\* and escrow account and any amount.
ExchangeTxs ==
    {[data |-> EncodeInstruction(1, amount),
      accounts |-> <<t.taker, Acc(t.send, FALSE), Acc(t.receive, FALSE),
                     Acc(custody, FALSE), Acc(initializer, FALSE),
                     Acc(init_receive, FALSE), Acc(escrow, FALSE),
                     Acc(t.token_program, FALSE),
                     Acc(t.pda_account, FALSE)>>] :
        t \in TakerSides,
        custody \in {"tA1", "tA2"},
        initializer \in {"alice", "bob", "e2"},
        init_receive \in {"rB", "sB"},
        escrow \in EscrowAccounts,
        amount \in Amounts}

\* Buffers that do not decode, with some account list.
MalformedTxs ==
    {[data |-> d,
      accounts |-> <<Acc("alice", TRUE), Acc("tA1", FALSE), Acc("rB", FALSE),
                     Acc("e1", FALSE), Acc(RentSysvar, FALSE),
                     Acc(TokenProgram, FALSE)>>] :
        d \in {<<>>, <<0>>, <<1>>, <<1, 1, 0, 0>>,
                <<0, 1, 0, 0, 0, 0, 0, 0>>, <<1, 1, 0, 0, 0, 0, 0, 0>>,
                <<2, 1, 0, 0, 0, 0, 0, 0, 0>>,
                <<255, 1, 0, 0, 0, 0, 0, 0, 0>>}}

(***************************************************************************)
(* Actions.                                                                *)
(***************************************************************************)
\* Variant: the writes of a failed call are kept.
HostCommitKeepsWrites(pre, run) == run.st

\* The host's atomic commit: the working copy replaces the accounts when the
\* handler returned Ok and is discarded otherwise.
HostCommit(pre, run) == IF run.err = OK THEN run.st ELSE pre

\* One dispatch call, from the client's transaction to the committed state.
Dispatch(tx) ==
    /\ pc = "idle"
    /\ LET run == Process(Accounts, EscrowProgram, tx.accounts, tx.data)
           post == HostCommit(Accounts, run)
       IN  /\ lamports' = post.lamports
           /\ token' = post.token
           /\ data' = post.data
           /\ last' = [kind |-> "call", tx |-> tx, ins |-> Unpack(tx.data),
                       err |-> run.err, steps |-> run.steps, cpi |-> run.cpi,
                       pre |-> Accounts, closed_before |-> closed]
           /\ closed' = IF run.err = OK /\ Unpack(tx.data).tag = "Exchange"
                         THEN closed \cup {tx.accounts[7].key}
                         ELSE closed
    /\ pc' = "returned"

DispatchInit == \E tx \in InitTxs : Dispatch(tx)

DispatchExchange == \E tx \in ExchangeTxs : Dispatch(tx)

DispatchMalformed == \E tx \in MalformedTxs : Dispatch(tx)

\* The host hands the result to the client; the next call may start.
Return ==
    /\ pc = "returned"
    /\ pc' = "idle"
    /\ last' = NoCall
    /\ UNCHANGED <<lamports, token, data, closed>>

\* Outside the program: a wallet pays an emptied escrow account enough to be
\* rent exempt again (anyone may credit any account).
FundAccount ==
    /\ pc = "idle"
    /\ \E from \in {"bob"}, to \in {"e1", "e2"} :
         /\ lamports[to] = 0
         /\ lamports[from] >= MinimumBalance(ESCROW_LEN)
         /\ lamports' = [lamports EXCEPT
                 ![from] = @ - MinimumBalance(ESCROW_LEN),
                 ![to] = @ + MinimumBalance(ESCROW_LEN)]
    /\ UNCHANGED <<token, data, pc, last, closed>>

Next ==
    \/ DispatchInit
    \/ DispatchExchange
    \/ DispatchMalformed
    \/ Return
    \/ FundAccount

Spec == Init /\ [][Next]_vars

(***************************************************************************)
(* Vocabulary of the properties.  A property about a dispatch call is      *)
(* stated on the state right after the call returned: last holds the       *)
(* call, its result and the accounts before it; the variables hold the     *)
(* accounts after it.                                                      *)
(***************************************************************************)
Returned == pc = "returned"

CallIs(tag) == Returned /\ last.ins.err = OK /\ last.ins.tag = tag

Succeeded == Returned /\ last.err = OK

\* The account supplied at position i of the call.
Arg(i) == last.tx.accounts[i]

Pre == last.pre

Pda == FindProgramAddress("escrow", EscrowProgram).key

\* The account's buffer holds an initialized record.
HoldsRecord(st, k) ==
    /\ k \in EscrowAccounts
    /\ DataLen(st.data[k]) = ESCROW_LEN
    /\ st.data[k][1] # 0

\* The fields of the record in an account's buffer.
RecInitializer(st, k) == st.data[k][2]
RecCustody(st, k) == st.data[k][3]
RecReceive(st, k) == st.data[k][4]
RecExpected(st, k) == st.data[k][5]

OpenToken(st, k) == k \in TokenAccounts /\ st.token[k].state = "Initialized"

\* Nothing the call could touch differs from before the call.
StateUnchanged == Accounts = Pre

(***************************************************************************)
(* C1.  Happy path of Exchange.                                            *)
(***************************************************************************)
\* The case the claim describes: an Exchange on an initialized record whose
\* custody account the derived authority holds, with the instruction amount
\* equal to the custody balance, the supplied custody, initializer and
\* initializer-receive accounts those of the record, a taker who signed and
\* whose send account holds at least expected_amount of the token the
\* initializer receives, a receive account for the custody's token, and the
\* genuine token program and derived-authority account.
C1_Case ==
    /\ CallIs("Exchange")
    /\ Arg(1).is_signer
    /\ HoldsRecord(Pre, Arg(7).key)
    /\ OpenToken(Pre, Arg(4).key)
    /\ Pre.token[Arg(4).key].owner = Pda
    /\ last.ins.amount = Pre.token[Arg(4).key].amount
    /\ Arg(4).key = RecCustody(Pre, Arg(7).key)
    /\ Arg(5).key = RecInitializer(Pre, Arg(7).key)
    /\ Arg(6).key = RecReceive(Pre, Arg(7).key)
    /\ OpenToken(Pre, Arg(2).key)
    /\ OpenToken(Pre, Arg(6).key)
    /\ OpenToken(Pre, Arg(3).key)
    /\ Pre.token[Arg(2).key].owner = Arg(1).key
    /\ Pre.token[Arg(2).key].mint = Pre.token[Arg(6).key].mint
    /\ Pre.token[Arg(2).key].amount >= RecExpected(Pre, Arg(7).key)
    /\ Pre.token[Arg(3).key].mint = Pre.token[Arg(4).key].mint
    /\ Arg(8).key = TokenProgram
    /\ Arg(9).key = Pda

\* The state the claim describes, as changes to the state before the call:
\* b of token B from the send to the initializer's receive account, a of
\* token A from the custody to the taker's receive account, the custody
\* account closed, its storage balance and the escrow account's to the
\* initializer, the escrow account emptied, nothing else changed.
C1_Outcome ==
    LET send == Arg(2).key
        receive == Arg(3).key
        custody == Arg(4).key
        initializer == Arg(5).key
        init_receive == Arg(6).key
        escrow == Arg(7).key
        a == Pre.token[custody].amount
        b == RecExpected(Pre, escrow)
    IN  /\ last.err = OK
        /\ token = [k \in TokenAccounts |->
                      IF k = custody
                      THEN [Pre.token[k] EXCEPT !.amount = 0,
                                                !.state = "Uninitialized"]
                      ELSE [Pre.token[k] EXCEPT !.amount =
                                @ - (IF k = send THEN b ELSE 0)
                                  + (IF k = init_receive THEN b ELSE 0)
                                  + (IF k = receive THEN a ELSE 0)]]
        /\ lamports = [k \in Keys |->
                         IF k \in {custody, escrow} THEN 0
                         ELSE IF k = initializer
                         THEN Pre.lamports[k] + Pre.lamports[custody]
                                 + Pre.lamports[escrow]
                         ELSE Pre.lamports[k]]
        /\ data = [Pre.data EXCEPT ![escrow] = <<>>]

\* What the claim leaves out: the custody account is none of the accounts
\* that receive tokens, the initializer account is neither the custody nor
\* the escrow account, and no credited balance exceeds the 64-bit maximum.
C1_Separate ==
    /\ Arg(4).key \notin {Arg(3).key, Arg(6).key}
    /\ Arg(5).key \notin {Arg(4).key, Arg(7).key}
    /\ Pre.lamports[Arg(5).key] + Pre.lamports[Arg(4).key]
           + Pre.lamports[Arg(7).key] <= U64_MAX
    /\ Pre.token[Arg(6).key].amount + RecExpected(Pre, Arg(7).key) <= U64_MAX
    /\ Pre.token[Arg(3).key].amount + Pre.token[Arg(4).key].amount <= U64_MAX

\* C1 as claimed: in the case the claim describes, Exchange succeeds and
\* produces exactly the described state.
C1_AsClaimed == C1_Case => C1_Outcome

\* C1 (amended): in the case the claim describes, and when moreover the
\* custody account is not one of the receiving token accounts, the
\* initializer account is neither the custody nor the escrow account and no
\* balance overflows, Exchange succeeds and produces exactly the described
\* state.
C1_HappyPath == (C1_Case /\ C1_Separate) => C1_Outcome

\* An Exchange in that case that moved a positive amount of both tokens.
C1_Witness ==
    /\ C1_Case
    /\ C1_Separate
    /\ Pre.token[Arg(4).key].amount > 0
    /\ RecExpected(Pre, Arg(7).key) > 0
    /\ Pre.lamports[Arg(7).key] > 0

C2_WitnessInit ==
    /\ CallIs("InitEscrow")
    /\ last.err # OK
    /\ Len(last.cpi) = 1
    /\ last.steps = <<"unpack_escrow", "pack_escrow", "SetAuthority">>

\* An Exchange whose second or third request failed after the first.
C2_WitnessExchange ==
    /\ CallIs("Exchange")
    /\ last.err \notin {OK, "AmountOverflow"}
    /\ Len(last.cpi) >= 2

(***************************************************************************)
(* C3.  Exchange rejects mismatched amounts.                               *)
(***************************************************************************)
C3_Case ==
    /\ CallIs("Exchange")
    /\ Arg(1).is_signer
    /\ OpenToken(Pre, Arg(4).key)
    /\ last.ins.amount # Pre.token[Arg(4).key].amount

\* C3: an Exchange whose taker signed and whose amount differs from the
\* custody account's balance fails with ExpectedAmountMismatch, has issued
\* no request to the collaborator and leaves every escrow record (and all
\* other state) unchanged, whatever accounts were supplied.
C3_RejectsMismatch ==
    C3_Case =>
        /\ last.err = "ExpectedAmountMismatch"
        /\ last.cpi = <<>>
        /\ data = Pre.data
        /\ StateUnchanged

\* A mismatching Exchange on a record that the other supplied accounts match,
\* with an amount below the custody balance.
C3_Witness ==
    /\ C3_Case
    /\ last.ins.amount < Pre.token[Arg(4).key].amount
    /\ HoldsRecord(Pre, Arg(7).key)
    /\ Arg(4).key = RecCustody(Pre, Arg(7).key)
    /\ Arg(5).key = RecInitializer(Pre, Arg(7).key)
    /\ Arg(6).key = RecReceive(Pre, Arg(7).key)

\* A mismatching Exchange whose accounts do not match the record.
C3_WitnessOtherAccounts ==
    /\ C3_Case
    /\ HoldsRecord(Pre, Arg(7).key)
    /\ Arg(4).key # RecCustody(Pre, Arg(7).key)

(***************************************************************************)
(* C4.  Init is not repeatable.                                            *)
(***************************************************************************)
C4_Case ==
    /\ CallIs("InitEscrow")
    /\ Arg(1).is_signer
    /\ OwnerProgram(Arg(3).key) = TokenProgram
    /\ Arg(4).key \in EscrowAccounts
    /\ IsExempt(Pre.lamports[Arg(4).key], DataLen(Pre.data[Arg(4).key]))
    /\ HoldsRecord(Pre, Arg(4).key)

\* C4: an Init on an escrow account that already holds an initialized
\* record, with a signer, a receiving account owned by the token program and
\* a rent-exempt escrow account, fails with AlreadyInitialized and leaves
\* the record and the custody authority (and all other state) as they were,
\* for any amount and accounts.
C4_InitNotRepeatable ==
    C4_Case => (last.err = "AccountAlreadyInitialized" /\ StateUnchanged)

\* A second Init that names another custody account and another amount than
\* the record, by the owner of that custody account.
C4_Witness ==
    /\ C4_Case
    /\ Arg(2).key # RecCustody(Pre, Arg(4).key)
    /\ last.ins.amount # RecExpected(Pre, Arg(4).key)
    /\ OpenToken(Pre, Arg(2).key)
    /\ Pre.token[Arg(2).key].owner = Arg(1).key
    /\ Arg(6).key = TokenProgram

(***************************************************************************)
(* C5.  A closed escrow is terminal.                                       *)
(***************************************************************************)
\* The escrow account a call names.
EscrowArg == IF last.ins.tag = "InitEscrow" THEN Arg(4).key ELSE Arg(7).key

\* C5: once an Exchange has succeeded on an escrow account, every later Init
\* and Exchange that names the account fails, and the account never holds
\* an initialized record again.
C5_ClosedIsTerminal ==
    /\ \A k \in closed : ~HoldsRecord(Accounts, k)
    /\ (Returned /\ last.ins.err = OK /\ EscrowArg \in last.closed_before)
           => last.err # OK

\* An Init on a closed escrow account that has been paid enough to pass the
\* rent check, so that the call gets as far as reading the record.
C5_Witness ==
    /\ CallIs("InitEscrow")
    /\ Arg(4).key \in last.closed_before
    /\ last.steps = <<"unpack_escrow">>

\* An Exchange on a closed escrow account that gets as far as the record.
C5_WitnessExchange ==
    /\ CallIs("Exchange")
    /\ Arg(7).key \in last.closed_before
    /\ last.steps = <<"unpack_custody", "unpack_escrow">>

(***************************************************************************)
(* C6.  The record is written once, then closed.                           *)
(***************************************************************************)
\* C6: over every dispatch call and every escrow account, a record becomes
\* initialized only by a successful Init on that account, and an initialized
\* record is left exactly as it was unless the call is a successful Exchange
\* on that account, which erases it.
C6_WriteOnceThenClosed ==
    Returned =>
        \A k \in EscrowAccounts :
            /\ (~HoldsRecord(Pre, k) /\ HoldsRecord(Accounts, k))
                   => (CallIs("InitEscrow") /\ last.err = OK /\ Arg(4).key = k)
            /\ HoldsRecord(Pre, k)
                   => \/ data[k] = Pre.data[k]
                      \/ /\ CallIs("Exchange")
                         /\ last.err = OK
                         /\ Arg(7).key = k
                         /\ data[k] = <<>>

\* A call that would overwrite an initialized record if nothing stopped it:
\* an Init on it for another custody account, by that account's owner.
C6_Witness ==
    /\ CallIs("InitEscrow")
    /\ Arg(1).is_signer
    /\ HoldsRecord(Pre, Arg(4).key)
    /\ Arg(2).key # RecCustody(Pre, Arg(4).key)
    /\ OpenToken(Pre, Arg(2).key)
    /\ Pre.token[Arg(2).key].owner = Arg(1).key
    /\ OwnerProgram(Arg(3).key) = TokenProgram
    /\ Arg(6).key = TokenProgram
    /\ data[Arg(4).key] = Pre.data[Arg(4).key]

\* A successful Exchange that erases one record and leaves another in place.
C6_WitnessExchange ==
    /\ CallIs("Exchange")
    /\ last.err = OK
    /\ HoldsRecord(Pre, Arg(7).key)
    /\ \E k \in EscrowAccounts \ {Arg(7).key, "f"} : HoldsRecord(Accounts, k)

(***************************************************************************)
(* C7.  Record/custody consistency.                                        *)
(***************************************************************************)
\* The escrow accounts the program owns: the accounts whose records are the
\* program's.
ProgramEscrows == {k \in EscrowAccounts : OwnerProgram(k) = EscrowProgram}

\* C7: in every state between dispatch calls, every initialized record of
\* the program names a custody account that is open and held by the derived
\* authority, and no two initialized records name the same custody account.
C7_RecordCustody ==
    /\ \A k \in ProgramEscrows :
           HoldsRecord(Accounts, k) =>
               /\ OpenToken(Accounts, RecCustody(Accounts, k))
               /\ token[RecCustody(Accounts, k)].owner = Pda
    /\ \A k1, k2 \in ProgramEscrows :
           (k1 # k2 /\ HoldsRecord(Accounts, k1) /\ HoldsRecord(Accounts, k2))
               => RecCustody(Accounts, k1) # RecCustody(Accounts, k2)

\* The same, as long as no Exchange has succeeded on an escrow account that
\* the program does not own.
C7_UnlessForeignRecord == (closed \subseteq ProgramEscrows) => C7_RecordCustody

(***************************************************************************)
(* C8.  Exchange validates the supplied accounts against the record.       *)
(***************************************************************************)
C8_Case ==
    /\ CallIs("Exchange")
    /\ Arg(1).is_signer
    /\ OpenToken(Pre, Arg(4).key)
    /\ last.ins.amount = Pre.token[Arg(4).key].amount
    /\ HoldsRecord(Pre, Arg(7).key)
    /\ \/ Arg(4).key # RecCustody(Pre, Arg(7).key)
       \/ Arg(5).key # RecInitializer(Pre, Arg(7).key)
       \/ Arg(6).key # RecReceive(Pre, Arg(7).key)

\* C8: an Exchange whose taker signed and whose amount matches the custody
\* balance, but whose custody, initializer or initializer-receive account is
\* not the one stored in the supplied record, fails with InvalidAccountData
\* and has issued no request to the collaborator.
C8_ValidatesAccounts ==
    C8_Case => (last.err = "InvalidAccountData" /\ last.cpi = <<>>)

\* Such an Exchange where only the initializer-receive account differs.
C8_Witness ==
    /\ C8_Case
    /\ Arg(4).key = RecCustody(Pre, Arg(7).key)
    /\ Arg(5).key = RecInitializer(Pre, Arg(7).key)
    /\ Arg(6).key # RecReceive(Pre, Arg(7).key)
    /\ Arg(8).key = TokenProgram
    /\ Arg(9).key = Pda
    /\ Pre.token[Arg(4).key].owner = Pda

\* Such an Exchange where only the custody account differs.
C8_WitnessCustody ==
    /\ C8_Case
    /\ Arg(4).key # RecCustody(Pre, Arg(7).key)
    /\ Arg(5).key = RecInitializer(Pre, Arg(7).key)
    /\ Arg(6).key = RecReceive(Pre, Arg(7).key)

\* Such an Exchange where only the initializer account differs.
C8_WitnessInitializer ==
    /\ C8_Case
    /\ Arg(4).key = RecCustody(Pre, Arg(7).key)
    /\ Arg(5).key # RecInitializer(Pre, Arg(7).key)
    /\ Arg(6).key = RecReceive(Pre, Arg(7).key)

(***************************************************************************)
(* C9.  Signature requirement.                                             *)
(***************************************************************************)
C9_Case ==
    /\ CallIs("InitEscrow") \/ CallIs("Exchange")
    /\ ~Arg(1).is_signer

\* C9: an Init or an Exchange whose first account did not sign fails with
\* MissingSignature, whatever the other accounts and the amount, without
\* having read or written an escrow record or issued a request.
C9_SignatureRequired ==
    C9_Case =>
        /\ last.err = "MissingRequiredSignature"
        /\ last.steps = <<>>
        /\ last.cpi = <<>>
        /\ StateUnchanged

\* An unsigned Exchange that has everything else the happy path needs.
C9_Witness ==
    /\ CallIs("Exchange")
    /\ ~Arg(1).is_signer
    /\ HoldsRecord(Pre, Arg(7).key)
    /\ OpenToken(Pre, Arg(4).key)
    /\ Pre.token[Arg(4).key].owner = Pda
    /\ last.ins.amount = Pre.token[Arg(4).key].amount
    /\ Arg(4).key = RecCustody(Pre, Arg(7).key)
    /\ Arg(5).key = RecInitializer(Pre, Arg(7).key)
    /\ Arg(6).key = RecReceive(Pre, Arg(7).key)
    /\ Pre.token[Arg(2).key].owner = Arg(1).key

\* An unsigned Init that has everything else a successful Init needs.
C9_WitnessInit ==
    /\ CallIs("InitEscrow")
    /\ ~Arg(1).is_signer
    /\ OpenToken(Pre, Arg(2).key)
    /\ Pre.token[Arg(2).key].owner = Arg(1).key
    /\ OwnerProgram(Arg(3).key) = TokenProgram
    /\ Pre.data[Arg(4).key] = ZeroBuffer
    /\ Arg(6).key = TokenProgram

(***************************************************************************)
(* C10.  Escrow isolation under the shared derived authority.              *)
(***************************************************************************)
\* C10: a successful Exchange that is given escrow account E takes token A
\* only from the custody account recorded in E and pays token B only to the
\* receive account recorded in E, and it leaves the record, and the custody
\* account's balance and authority, of every other active escrow unchanged.
C10_Isolation ==
    (CallIs("Exchange") /\ last.err = OK) =>
        LET e == Arg(7).key
        IN  /\ \A t \in TokenAccounts :
                   token[t].amount < Pre.token[t].amount
                       => t \in {RecCustody(Pre, e), Arg(2).key}
            /\ \A t \in TokenAccounts :
                   (token[t].amount > Pre.token[t].amount
                       /\ token[t].mint = Pre.token[RecReceive(Pre, e)].mint)
                       => t = RecReceive(Pre, e)
            /\ \A k \in ProgramEscrows \ {e} :
                   HoldsRecord(Pre, k) =>
                       /\ data[k] = Pre.data[k]
                       /\ token[RecCustody(Pre, k)]
                              = Pre.token[RecCustody(Pre, k)]

\* The part of C10 about the other escrows' custody accounts losing nothing.
C10_OthersKeepCustody ==
    (CallIs("Exchange") /\ last.err = OK) =>
        \A k \in ProgramEscrows \ {Arg(7).key} :
            HoldsRecord(Pre, k) =>
                /\ data[k] = Pre.data[k]
                /\ token[RecCustody(Pre, k)].state
                       = Pre.token[RecCustody(Pre, k)].state
                /\ token[RecCustody(Pre, k)].owner
                       = Pre.token[RecCustody(Pre, k)].owner
                /\ token[RecCustody(Pre, k)].amount
                       >= Pre.token[RecCustody(Pre, k)].amount

\* The same when the escrow account given is one the program owns.
C10_OwnRecordsOnly ==
    (CallIs("Exchange") /\ last.err = OK /\ Arg(7).key \in ProgramEscrows)
        => C10_OthersKeepCustody

(***************************************************************************)
(* C11.  Overflow guard of the storage-balance credit.                     *)
(***************************************************************************)
\* An Exchange whose three requests succeed: the case of C1, the custody
\* account none of the accounts that receive tokens or the refund, and no
\* overflow inside the collaborator.
C11_Case ==
    /\ C1_Case
    /\ Arg(4).key \notin {Arg(3).key, Arg(5).key, Arg(6).key}
    /\ Pre.token[Arg(6).key].amount + RecExpected(Pre, Arg(7).key) <= U64_MAX
    /\ Pre.token[Arg(3).key].amount + Pre.token[Arg(4).key].amount <= U64_MAX
    /\ Pre.lamports[Arg(5).key] + Pre.lamports[Arg(4).key] <= U64_MAX

\* The initializer's balance once the close request has credited the refund.
C11_AfterClose == Pre.lamports[Arg(5).key] + Pre.lamports[Arg(4).key]

\* The escrow account's balance at that moment.
C11_EscrowBalance ==
    IF Arg(7).key = Arg(5).key THEN C11_AfterClose
    ELSE Pre.lamports[Arg(7).key]

\* What the guard is to achieve: when the initializer's balance after the
\* refund plus the escrow account's balance exceeds the 64-bit maximum the
\* call fails with AmountOverflow and the initializer's balance is the one
\* before the call; otherwise the call succeeds, the initializer's balance
\* is the exact sum and the escrow account's is 0.
C11_Guarded ==
    IF C11_AfterClose + C11_EscrowBalance > U64_MAX
    THEN /\ last.err = "AmountOverflow"
         /\ lamports[Arg(5).key] = Pre.lamports[Arg(5).key]
    ELSE /\ last.err = OK
         /\ lamports[Arg(5).key] = C11_AfterClose + C11_EscrowBalance
         /\ lamports[Arg(7).key] = 0

\* C11: every Exchange that reaches the credit of the storage balance either
\* fails with AmountOverflow, the initializer's balance unchanged, or leaves
\* the initializer with the exact sum and the escrow account with 0.
C11_OverflowGuard == C11_Case => C11_Guarded

\* The same when the initializer account is not the escrow account.
C11_UnlessSameAccount == (C11_Case /\ Arg(5).key # Arg(7).key) => C11_Guarded

\* Such an Exchange that the guard stopped.
C11_WitnessOverflow ==
    /\ C11_Case
    /\ Arg(5).key # Arg(7).key
    /\ C11_AfterClose + C11_EscrowBalance > U64_MAX

\* Such an Exchange where the initializer account is the escrow account.
C11_WitnessSameAccount ==
    /\ C11_Case
    /\ Arg(5).key = Arg(7).key

(***************************************************************************)
(* C12.  Preconditions of Init and their order.                            *)
(***************************************************************************)
\* The call stopped before it read or wrote the record and before it issued
\* a request.
C12_NothingDone ==
    /\ last.steps = <<>>
    /\ last.cpi = <<>>
    /\ StateUnchanged

\* The receiving account of the call is owned by the token program.
C12_OwnerOk == OwnerProgram(Arg(3).key) = TokenProgram

\* The escrow account of the call is rent exempt at its current data size.
C12_RentOk ==
    Pre.lamports[Arg(4).key] >=
        MinimumBalance(DataLen(DataOf(Pre, Arg(4).key)))

\* C12: an Init whose initializer signed fails with the wrong-owner error
\* (IncorrectProgramId) when the receiving account is not owned by the token
\* program, whatever the escrow account is; otherwise with NotRentExempt when
\* the escrow account is not rent exempt, initialized or not; in both cases
\* before the record is touched and before any request; and otherwise with
\* AccountAlreadyInitialized when the record is initialized.
C12_InitPreconditions ==
    (CallIs("InitEscrow") /\ Arg(1).is_signer) =>
        /\ ~C12_OwnerOk =>
               (last.err = "IncorrectProgramId" /\ C12_NothingDone)
        /\ (C12_OwnerOk /\ ~C12_RentOk) =>
               (last.err = "NotRentExempt" /\ C12_NothingDone)
        /\ (C12_OwnerOk /\ C12_RentOk /\ HoldsRecord(Pre, Arg(4).key)) =>
               (last.err = "AccountAlreadyInitialized" /\ last.cpi = <<>>)

\* An Init that meets the rent check on an account that holds an initialized
\* record: the rent check comes first.
C12_Witness ==
    /\ CallIs("InitEscrow")
    /\ Arg(1).is_signer
    /\ C12_OwnerOk
    /\ ~C12_RentOk
    /\ HoldsRecord(Pre, Arg(4).key)
    /\ last.err = "NotRentExempt"

\* An Init whose receiving account has the wrong owner and whose escrow
\* account is not rent exempt: the owner check comes first.
C12_WitnessOwner ==
    /\ CallIs("InitEscrow")
    /\ Arg(1).is_signer
    /\ ~C12_OwnerOk
    /\ ~C12_RentOk
    /\ last.err = "IncorrectProgramId"

(***************************************************************************)
(* The instruction codec on its own: a client's byte buffer is handed to   *)
(* EscrowInstruction::unpack.  last holds the buffer and then the result;  *)
(* the accounts play no part.                                              *)
(***************************************************************************)
\* The longest operand (the bytes after the tag) that is tried.
MaxOperand == 10

\* The operand bytes that may be non-zero among the eight that are decoded.
MaxAmountBytes == 3

ByteValues == {0, 1, 127}

TagValues == {0, 1, 2, 255}

\* The byte sequences of exactly n bytes, and of at most n bytes.
BytesOfLen(n) == [1..n -> ByteValues]

BytesUpTo(n) == UNION {BytesOfLen(m) : m \in 0..n}

Zeros(n) == [i \in 1..n |-> 0]

\* The operands: every length from 0 to MaxOperand; the decoded bytes above
\* MaxAmountBytes are 0, the bytes after the eighth are any.
Operands ==
    BytesUpTo(MaxAmountBytes)
    \cup {low \o Zeros(z) : low \in BytesOfLen(MaxAmountBytes),
                            z \in 1..(8 - MaxAmountBytes)}
    \cup {low \o Zeros(8 - MaxAmountBytes) \o trail :
              low \in BytesOfLen(MaxAmountBytes),
              trail \in BytesUpTo(MaxOperand - 8)}

\* The buffers: the empty one, and every tag followed by every operand.
Buffers == {<<>>} \cup {<<t>> \o o : t \in TagValues, o \in Operands}

CodecInit ==
    /\ pc = "buffer"
    /\ last \in {[kind |-> "buffer", input |-> b] : b \in Buffers}
    /\ lamports = [k \in Keys |-> 0]
    /\ token = [k \in TokenAccounts |->
                   [state |-> "Uninitialized", mint |-> "A",
                    owner |-> ZeroPubkey, amount |-> 0]]
    /\ data = [k \in EscrowAccounts |-> <<>>]
    /\ closed = {}

\* EscrowInstruction::unpack(input)
Decode ==
    /\ pc = "buffer"
    /\ pc' = "decoded"
    /\ last' = [kind |-> "decoded", input |-> last.input,
                ins |-> Unpack(last.input)]
    /\ UNCHANGED <<lamports, token, data, closed>>

CodecNext == Decode

CodecSpec == CodecInit /\ [][CodecNext]_vars

Decoded == pc = "decoded"

\* The operand of the decoded buffer: the bytes after the tag.
Operand == Tail(last.input)

(***************************************************************************)
(* C13.  Instruction decode success.                                       *)
(***************************************************************************)
RECURSIVE Pow256(_)
Pow256(n) == IF n = 0 THEN 1 ELSE 256 * Pow256(n - 1)

RECURSIVE WeightedSum(_, _)
\* The little-endian value of the first n bytes of bs: byte i weighs
\* 256^(i-1).
WeightedSum(bs, n) ==
    IF n = 0 THEN 0
    ELSE (IF bs[n] = 0 THEN 0 ELSE bs[n] * Pow256(n - 1))
             + WeightedSum(bs, n - 1)

\* C13: a buffer whose first byte is 0 or 1 and which has at least 8 more
\* bytes decodes, to InitEscrow for 0 and Exchange for 1, with the amount
\* the little-endian value of bytes 1..9 whatever bytes follow them.
C13_DecodeSuccess ==
    (Decoded /\ last.input # <<>> /\ Head(last.input) \in {0, 1}
        /\ Len(Operand) >= 8) =>
        /\ last.ins.err = OK
        /\ last.ins.tag =
               (IF Head(last.input) = 0 THEN "InitEscrow" ELSE "Exchange")
        /\ last.ins.amount = WeightedSum(Operand, 8)

\* A decoded buffer with non-zero bytes after the ninth and an amount whose
\* second byte is not 0.
C13_Witness ==
    /\ Decoded
    /\ last.input # <<>>
    /\ Head(last.input) = 1
    /\ Len(Operand) > 8
    /\ Operand[9] # 0
    /\ Operand[2] # 0
    /\ last.ins.err = OK
    /\ last.ins.amount >= 256

(***************************************************************************)
(* C14.  Instruction decode failure.                                       *)
(***************************************************************************)
\* The buffer of the call is empty, or its first byte is neither 0 nor 1, or
\* fewer than 8 bytes follow the first.
C14_Case ==
    /\ Returned
    /\ \/ last.tx.data = <<>>
       \/ Head(last.tx.data) \notin {0, 1}
       \/ Len(Tail(last.tx.data)) < 8

\* C14: a dispatch call with such a buffer fails with InvalidInstruction; no
\* account was read, no request was issued and nothing has changed.
C14_DecodeFailure ==
    C14_Case =>
        /\ last.err = "InvalidInstruction"
        /\ last.steps = <<>>
        /\ last.cpi = <<>>
        /\ StateUnchanged

\* Such a call with an unknown tag in front of a well-formed amount, in a
\* state where an escrow is open.
C14_Witness ==
    /\ Returned
    /\ last.tx.data # <<>>
    /\ Head(last.tx.data) \notin {0, 1}
    /\ Len(Tail(last.tx.data)) = 8
    /\ \E k \in ProgramEscrows : HoldsRecord(Pre, k)

\* Such a call with tag 0 or 1 and 7 bytes after it.
C14_WitnessShort ==
    /\ Returned
    /\ last.tx.data # <<>>
    /\ Head(last.tx.data) \in {0, 1}
    /\ Len(Tail(last.tx.data)) = 7

\* Such a call with the empty buffer.
C14_WitnessEmpty == Returned /\ last.tx.data = <<>>

(***************************************************************************)
(* C15.  Width of the amount operand.                                      *)
(***************************************************************************)
\* A decoded buffer with tag 0 or 1.
C15_ValidTag == Decoded /\ last.input # <<>> /\ Head(last.input) \in {0, 1}

\* C15 as claimed: a valid tag followed by an operand that is not exactly 8
\* bytes, longer or shorter, fails to decode with InvalidInstruction.
C15_ExactWidth ==
    (C15_ValidTag /\ Len(Operand) # 8) => last.ins.err = "InvalidInstruction"

\* C15 (amended): a valid tag followed by fewer than 8 operand bytes, or by
\* none, fails to decode with InvalidInstruction; followed by 8 or more it
\* decodes, the amount being that of the first 8 operand bytes.
C15_AtLeastWidth ==
    C15_ValidTag =>
        IF Len(Operand) < 8
        THEN last.ins.err = "InvalidInstruction"
        ELSE /\ last.ins.err = OK
             /\ last.ins.amount = WeightedSum(SubSeq(Operand, 1, 8), 8)

\* A valid tag followed by more than 8 operand bytes, the extra ones not 0.
C15_Witness ==
    /\ C15_ValidTag
    /\ Len(Operand) > 8
    /\ Operand[9] # 0
    /\ last.ins.err = OK

\* A valid tag followed by 7 operand bytes.
C15_WitnessShort ==
    /\ C15_ValidTag
    /\ Len(Operand) = 7
    /\ last.ins.err = "InvalidInstruction"

(***************************************************************************)
(* C16.  At most one settlement per escrow.                                *)
(***************************************************************************)
\* C16: the Exchange calls on one escrow account run one after the other,
\* and an Exchange on an escrow account on which an earlier Exchange has
\* succeeded, by the same taker or another, fails and moves no token; so at
\* most one of them succeeds.
C16_OneSettlement ==
    (CallIs("Exchange") /\ Arg(7).key \in last.closed_before) =>
        /\ last.err # OK
        /\ token = Pre.token
        /\ lamports = Pre.lamports

\* A second Exchange on an escrow account, by another taker than the one
\* that settled it, which is otherwise as the first one was.
C16_Witness ==
    /\ CallIs("Exchange")
    /\ Arg(7).key \in last.closed_before
    /\ Arg(7).key \in ProgramEscrows
    /\ Arg(1).key = "alice"
    /\ Arg(1).is_signer
    /\ Pre.token["rA"].amount > 0
    /\ Arg(8).key = TokenProgram
    /\ Arg(9).key = Pda

\* A second Exchange on an escrow account by the same taker.
C16_WitnessSameTaker ==
    /\ CallIs("Exchange")
    /\ Arg(7).key \in last.closed_before
    /\ Arg(1).key = "bob"
    /\ Arg(1).is_signer
    /\ Pre.token["rA"].amount > 0

(***************************************************************************)
(* C17.  Order of the steps of Exchange.                                   *)
(***************************************************************************)
\* The steps of a complete Exchange after the signer check, in order: the
\* custody balance is read and compared, the record is read and compared,
\* token B is transferred, token A is transferred, the custody account is
\* closed, the storage balance is credited, the escrow account is erased.
ExchangeSteps ==
    <<"unpack_custody", "unpack_escrow", "Transfer", "Transfer",
      "CloseAccount", "credit_lamports", "erase_escrow">>

IsPrefix(s, t) == Len(s) <= Len(t) /\ s = SubSeq(t, 1, Len(s))

\* The requests of a complete Exchange, in order, for the accounts of the
\* call: what is moved or closed, and where to.
C17_RequestIs(i, ix) ==
    IF i = 1
    THEN ix.op = "Transfer" /\ ix.account = Arg(2).key
             /\ ix.other = Arg(6).key /\ ix.authority = Arg(1).key
    ELSE IF i = 2
    THEN ix.op = "Transfer" /\ ix.account = Arg(4).key
             /\ ix.other = Arg(3).key /\ ix.authority = Pda
    ELSE ix.op = "CloseAccount" /\ ix.account = Arg(4).key
             /\ ix.other = Arg(5).key /\ ix.authority = Pda

\* C17: the steps an Exchange call executed are an initial part of the
\* steps of a complete Exchange, the whole of it exactly when the call
\* succeeded; an unsigned call executed none, a call with a wrong amount
\* stopped at the comparison of the custody balance, a call that failed
\* before or at the comparison with the record made no request; the
\* requests made are the first ones of a complete Exchange in order, and
\* token A was requested to move only after the transfer of token B had
\* succeeded.
C17_StepOrdering ==
    CallIs("Exchange") =>
        /\ IsPrefix(last.steps, ExchangeSteps)
        /\ (last.err = OK) <=> (last.steps = ExchangeSteps)
        /\ ~Arg(1).is_signer => last.steps = <<>>
        /\ last.err = "ExpectedAmountMismatch"
               => last.steps = <<"unpack_custody">>
        /\ Len(last.steps) <= 2 => last.cpi = <<>>
        /\ Len(last.cpi) = Len(SelectSeq(last.steps,
                               LAMBDA x : x \in {"Transfer", "CloseAccount"}))
        /\ \A i \in 1..Len(last.cpi) : C17_RequestIs(i, last.cpi[i])
        /\ Len(last.cpi) >= 2 =>
               Invoke(Pre, last.cpi[1],
                      <<Arg(2), Arg(6), Arg(1), Arg(8)>>).err = OK

\* An Exchange whose transfer of token B failed: token A was not requested.
C17_Witness ==
    /\ CallIs("Exchange")
    /\ last.err # OK
    /\ Len(last.cpi) = 1
    /\ last.steps = SubSeq(ExchangeSteps, 1, 3)

\* An Exchange that stopped at the close request.
C17_WitnessClose ==
    /\ CallIs("Exchange")
    /\ last.err # OK
    /\ Len(last.cpi) = 3
    /\ last.steps = SubSeq(ExchangeSteps, 1, 5)
    /\ last.err # "AmountOverflow"

\* An Exchange that ran to the end.
C17_WitnessComplete ==
    /\ CallIs("Exchange")
    /\ last.err = OK
    /\ last.steps = ExchangeSteps

(***************************************************************************)
(* C18.  Frame of Init.                                                    *)
(***************************************************************************)
\* C18: after a successful Init the supplied escrow account holds the record
\* (initialized, initializer = account 0, custody = account 1, receiving =
\* account 2, expected_amount = the amount of the instruction); the custody
\* account, which the initializer held, is held by the derived authority;
\* exactly one request, that set_authority, was issued; every token balance,
\* every storage balance, every other token account and every other escrow
\* account is as before.
C18_InitFrame ==
    (CallIs("InitEscrow") /\ last.err = OK) =>
        /\ data = [Pre.data EXCEPT ![Arg(4).key] =
                      <<1, Arg(1).key, Arg(2).key, Arg(3).key,
                        last.ins.amount>>]
        /\ Pre.token[Arg(2).key].owner = Arg(1).key
        /\ token = [Pre.token EXCEPT ![Arg(2).key].owner = Pda]
        /\ lamports = Pre.lamports
        /\ Len(last.cpi) = 1
        /\ last.cpi[1].op = "SetAuthority"
        /\ last.cpi[1].account = Arg(2).key
        /\ last.cpi[1].other = Pda
        /\ last.cpi[1].authority = Arg(1).key

\* A successful Init with a positive amount while another escrow is open and
\* the custody account holds tokens.
C18_Witness ==
    /\ CallIs("InitEscrow")
    /\ last.err = OK
    /\ last.ins.amount > 0
    /\ Pre.token[Arg(2).key].amount > 0
    /\ \E k \in ProgramEscrows \ {Arg(4).key} : HoldsRecord(Pre, k)

(***************************************************************************)
(* C19.  Only genuine records release custody.                             *)
(***************************************************************************)
\* The call took tokens out of token account c or closed it.
C19_Released(c) ==
    \/ token[c].amount < Pre.token[c].amount
    \/ token[c].state # Pre.token[c].state

\* C19: a successful Exchange takes tokens out of an account that the
\* derived authority holds only when the escrow account it was given is one
\* of the program's, whose records only Init writes, and holds an
\* initialized record that names that account as its custody account.
C19_GenuineRecordsOnly ==
    (CallIs("Exchange") /\ last.err = OK) =>
        \A c \in TokenAccounts :
            (Pre.token[c].owner = Pda /\ C19_Released(c)) =>
                /\ Arg(7).key \in ProgramEscrows
                /\ HoldsRecord(Pre, Arg(7).key)
                /\ RecCustody(Pre, Arg(7).key) = c

\* The same for the Exchange calls that are given an escrow account of the
\* program.
C19_OwnRecords ==
    (CallIs("Exchange") /\ last.err = OK /\ Arg(7).key \in ProgramEscrows)
        => \A c \in TokenAccounts :
               (Pre.token[c].owner = Pda /\ C19_Released(c)) =>
                   /\ HoldsRecord(Pre, Arg(7).key)
                   /\ RecCustody(Pre, Arg(7).key) = c

(***************************************************************************)
(* C20.  Conservation of the storage balances.                             *)
(***************************************************************************)
RECURSIVE SumOver(_, _)
\* The sum of the balances bal[k] of the accounts k in S.
SumOver(bal, S) ==
    IF S = {} THEN 0
    ELSE LET k == CHOOSE x \in S : TRUE
         IN  bal[k] + SumOver(bal, S \ {k})

\* C20: every dispatch call, successful or not, leaves the sum of all
\* storage balances as it was, whichever of the supplied accounts coincide.
C20_Conservation ==
    Returned => SumOver(lamports, Keys) = SumOver(Pre.lamports, Keys)

\* The same for the calls other than an Exchange whose initializer account
\* is the escrow account.
C20_UnlessSameAccount ==
    (Returned /\ ~(CallIs("Exchange") /\ Arg(5).key = Arg(7).key))
        => SumOver(lamports, Keys) = SumOver(Pre.lamports, Keys)

\* A successful Exchange whose initializer account is not the escrow
\* account receives exactly the custody account's and the escrow account's
\* storage balance.
C20_ExactCredit ==
    (CallIs("Exchange") /\ last.err = OK /\ Arg(5).key # Arg(7).key) =>
        /\ lamports[Arg(5).key] =
               Pre.lamports[Arg(5).key] + Pre.lamports[Arg(4).key]
                   + Pre.lamports[Arg(7).key]
        /\ lamports[Arg(4).key] = 0
        /\ lamports[Arg(7).key] = 0

(***************************************************************************)
(* C21.  The deposit is locked until settlement.                           *)
(***************************************************************************)
\* The call is a successful Exchange on escrow account k.
C21_Settles(k) == CallIs("Exchange") /\ last.err = OK /\ Arg(7).key = k

\* The custody account c is as locked after the call as before it: open,
\* held by the derived authority, and with no token less.
C21_StillLocked(c) ==
    /\ token[c].state = "Initialized"
    /\ token[c].owner = Pda
    /\ token[c].amount >= Pre.token[c].amount

\* The escrow account k of the program holds an initialized record whose
\* custody account is open and held by the derived authority.
C21_Deposited(k) ==
    /\ HoldsRecord(Pre, k)
    /\ OpenToken(Pre, RecCustody(Pre, k))
    /\ Pre.token[RecCustody(Pre, k)].owner = Pda

\* C21: over every dispatch call, the custody account of every open escrow
\* of the program stays open and held by the derived authority and loses no
\* token, unless the call is a successful Exchange on the escrow account
\* whose record names it; no other call gives the account or its tokens
\* back to the initializer or to anyone.
C21_LockedUntilSettlement ==
    Returned =>
        \A k \in ProgramEscrows :
            (C21_Deposited(k) /\ ~C21_Settles(k))
                => C21_StillLocked(RecCustody(Pre, k))

\* The same over the calls other than an Exchange that is given an escrow
\* account the program does not own.
C21_UnlessForeignRecord ==
    (Returned /\ ~(CallIs("Exchange") /\ Arg(7).key \notin ProgramEscrows))
        => \A k \in ProgramEscrows :
               (C21_Deposited(k) /\ ~C21_Settles(k))
                   => C21_StillLocked(RecCustody(Pre, k))


=============================================================================
